---- MODULE Spec2Model ----
(***************************************************************************)
(* The two-stage crate planner of lab/prototype.py as a state machine:     *)
(* gen_crates_planes draws the instance, plan_edges turns the demand       *)
(* matrix into edges and precedence constraints, plan_planes schedules the *)
(* edges on the planes.                                                    *)
(*                                                                         *)
(* The module-level parameters of prototype.py (lines 4-7) keep their      *)
(* names but are instantiated at values small enough to enumerate every    *)
(* instance: the script itself runs plane_cap = 30, city_count = 20 and    *)
(* crate_count = 8400.  crate_count is the number of crate draws of        *)
(* gen_crates_planes, hence the largest total demand of an instance.       *)
(* The instances of Spec leave the last city idle (GenCities); SpecWide    *)
(* draws fewer crates (wide_count) over all the cities and runs plan_edges *)
(* alone; SpecSingle runs the planner on the single-pair instances of one  *)
(* plane; SpecClosure applies add_constraint to every closed acyclic store *)
(* over closure_edges edge indices.                                        *)
(* Edge indices and cities are 0-based as in the code; TLA+ sequences are  *)
(* 1-based, so edge idx is edges[idx + 1].                                 *)
(***************************************************************************)
EXTENDS Integers, Sequences, FiniteSets, TLC

plane_cap == 4
city_count == 4
crate_count == 8
plane_count == 2
wide_count == 6
single_max == 9
closure_edges == 4

Cities == 0 .. (city_count - 1)
Planes == 0 .. (plane_count - 1)
Cells == Cities \X Cities

\* the cities the instances of Spec draw crates and planes from
GenCities == Cities \ {city_count - 1}

\* len() of a list held as a function on 0 .. n-1
len(f) == Cardinality(DOMAIN f)

\* paths[c] of find_path before city c is discovered (Python's None)
None == << -1 >>

VARIABLES
    pc,             \* position of the script
    gen_n,          \* iterations done by the loop of gen_crates_planes
    crates,         \* the demand matrix object, mutated in place by plan_edges
    planes,         \* initial city of each plane
    demand,         \* value of crates when plan_edges is called
    min_edges,      \* lower bound printed by the script before planning
    ij_order,       \* pairs in processing order
    ij_k,           \* position of the for loop of plan_edges in ij_order
    edges,          \* edge store
    constraints,    \* constraint store
    ij_path,        \* path being committed
    path_k,         \* position of the zip loop over ij_path
    amount,         \* crates moved by the path being committed
    all_out_edges, all_in_edges,
    available_out_edges, available_in_edges,
    visited_edges,
    plane_edges,    \* the plan
    flight_idx,     \* for each flight of plane_edges the edge it executes, -1 for a jump
    plane_pos,
    plane_idx,      \* plane of the running extend_journey
    cur_i,          \* local i of the running extend_journey
    ext_local,      \* local extended of the running extend_journey
    extended        \* extended of the round-robin pass

edge_vars == << ij_order, ij_k, edges, constraints, ij_path, path_k, amount >>
plane_vars == << all_out_edges, all_in_edges, available_out_edges, available_in_edges,
                 visited_edges, plane_edges, flight_idx, plane_pos, plane_idx, cur_i,
                 ext_local, extended >>
vars == << pc, gen_n, crates, planes, demand, min_edges, edge_vars, plane_vars >>

----------------------------------------------------------------------------
(* Arithmetic helpers *)

RECURSIVE SumTo(_, _)
SumTo(f, n) == IF n < 0 THEN 0 ELSE f[n] + SumTo(f, n - 1)

\* np.sum of a vector indexed by city
np_sum(v) == SumTo(v, city_count - 1)

Min(a, b) == IF a <= b THEN a ELSE b
Max(a, b) == IF a >= b THEN a ELSE b

row_sum(m, i) == np_sum([j \in Cities |-> m[<< i, j >>]])
col_sum(m, j) == np_sum([i \in Cities |-> m[<< i, j >>]])

\* (x + plane_cap - 1) // plane_cap
ceil_cap(x) == (x + plane_cap - 1) \div plane_cap

min_landings(m) == np_sum([i \in Cities |-> ceil_cap(row_sum(m, i))])
min_takeoffs(m) == np_sum([j \in Cities |-> ceil_cap(col_sum(m, j))])
compute_min_edges(m) == Max(min_landings(m), min_takeoffs(m))

zero_cargo == [d \in Cities |-> 0]

----------------------------------------------------------------------------
(* plan_edges: the helpers *)

\* position of a pair in [(i, j) for i in range(city_count) for j in range(city_count)]
base_pos(p) == p[1] * city_count + p[2]

\* sorted(..., reverse=True, key=crates[ij]) is stable: larger demand first,
\* equal demands in their original order
sort_before(m, p, q) == m[p] > m[q] \/ (m[p] = m[q] /\ base_pos(p) < base_pos(q))

sorted_ij_order(m) ==
    [n \in 1 .. Cardinality(Cells) |->
        CHOOSE p \in Cells : Cardinality({q \in Cells : sort_before(m, q, p)}) = n - 1]

EdgeAt(E, idx) == E[idx + 1]

Edge(i, j, cargo) == [i |-> i, j |-> j, cargo |-> cargo]

\* variant: source and destination passed in the wrong order
PlaneEdge_swapped(p, i, j, cargo) == [plane_idx |-> p, i |-> j, j |-> i, cargo |-> cargo]

PlaneEdge(p, i, j, cargo) == [plane_idx |-> p, i |-> i, j |-> j, cargo |-> cargo]

\* variant: the amount is booked on the source city
add_edge_src(E, i, j, amt) ==
    Append(E, Edge(i, j, [zero_cargo EXCEPT ![i] = @ + amt]))

add_edge(E, i, j, amt) ==
    Append(E, Edge(i, j, [zero_cargo EXCEPT ![j] = @ + amt]))

\* assert amount <= plane_cap of add_edge
add_edge_ok(amt) == amt <= plane_cap

\* variant: the pair is never recorded
add_constraint_dropped(cs, ei, ej) == cs

\* variant: the pair is recorded without the closure loop
add_constraint_unclosed(cs, ei, ej) ==
    IF ~cs.ok THEN cs
    ELSE IF << ej, ei >> \in cs.pairs \/ ei = ej THEN [cs EXCEPT !.ok = FALSE]
    ELSE [cs EXCEPT !.pairs = @ \cup {<< ei, ej >>}]

\* The constraint store while add_constraint runs: the pairs, and ok = FALSE
\* once an assertion has failed (the AssertionError unwinds every open call).
RECURSIVE add_constraint(_, _, _)
RECURSIVE add_constraint_loop(_, _, _, _)

\* variant: only the pairs that start at ej are followed
RECURSIVE add_constraint_loop_succ(_, _, _, _)
add_constraint_loop_succ(cs, todo, ei, ej) ==
    IF todo = {} \/ ~cs.ok THEN cs
    ELSE LET p == CHOOSE q \in todo : TRUE
             c1 == IF p[1] = ej THEN add_constraint(cs, ei, p[2]) ELSE cs
         IN  add_constraint_loop_succ(c1, todo \ {p}, ei, ej)

add_constraint_loop(cs, todo, ei, ej) ==
    IF todo = {} \/ ~cs.ok THEN cs
    ELSE LET p == CHOOSE q \in todo : TRUE
             c1 == IF p[1] = ej THEN add_constraint(cs, ei, p[2]) ELSE cs
             c2 == IF p[2] = ei THEN add_constraint(c1, p[1], ej) ELSE c1
         IN  add_constraint_loop(c2, todo \ {p}, ei, ej)

add_constraint(cs, ei, ej) ==
    IF ~cs.ok THEN cs
    ELSE IF << ej, ei >> \in cs.pairs \/ ei = ej THEN [cs EXCEPT !.ok = FALSE]
    ELSE IF << ei, ej >> \in cs.pairs THEN cs
    ELSE LET added == cs.pairs \cup {<< ei, ej >>}
         IN  add_constraint_loop([pairs |-> added, ok |-> TRUE], added, ei, ej)

\* variant: no edge is ever rejected for its constraints
can_be_used_any(C, edge_idx, path_to_i) == TRUE

\* the test of the inner loop of find_path
can_be_used(C, edge_idx, path_to_i) ==
    \A n \in 1 .. Len(path_to_i) : << edge_idx, path_to_i[n] >> \notin C

\* variant: full edges are not skipped
RECURSIVE scan_edges_full(_, _, _, _, _, _)
scan_edges_full(E, C, st, visited_i, path_to_i, edge_idx) ==
    IF edge_idx >= Len(E) THEN st
    ELSE LET edge == EdgeAt(E, edge_idx)
             take == /\ edge.i = visited_i
                     /\ st.paths[edge.j] = None
                     /\ can_be_used(C, edge_idx, path_to_i)
             st2 == IF take
                    THEN [paths |-> [st.paths EXCEPT ![edge.j] = Append(path_to_i, edge_idx)],
                          visited |-> Append(st.visited, edge.j)]
                    ELSE st
         IN  scan_edges_full(E, C, st2, visited_i, path_to_i, edge_idx + 1)

\* variant: the edges are scanned from the last index down
RECURSIVE scan_edges_rev(_, _, _, _, _, _)
scan_edges_rev(E, C, st, visited_i, path_to_i, edge_idx) ==
    IF edge_idx >= Len(E) THEN st
    ELSE LET idx == Len(E) - 1 - edge_idx
             edge == EdgeAt(E, idx)
             take == /\ edge.i = visited_i
                     /\ st.paths[edge.j] = None
                     /\ np_sum(edge.cargo) < plane_cap
                     /\ can_be_used(C, idx, path_to_i)
             st2 == IF take
                    THEN [paths |-> [st.paths EXCEPT ![edge.j] = Append(path_to_i, idx)],
                          visited |-> Append(st.visited, edge.j)]
                    ELSE st
         IN  scan_edges_rev(E, C, st2, visited_i, path_to_i, edge_idx + 1)

RECURSIVE scan_edges(_, _, _, _, _, _)
scan_edges(E, C, st, visited_i, path_to_i, edge_idx) ==
    IF edge_idx >= Len(E) THEN st
    ELSE LET edge == EdgeAt(E, edge_idx)
             take == /\ edge.i = visited_i
                     /\ st.paths[edge.j] = None
                     /\ np_sum(edge.cargo) < plane_cap
                     /\ can_be_used(C, edge_idx, path_to_i)
             st2 == IF take
                    THEN [paths |-> [st.paths EXCEPT ![edge.j] = Append(path_to_i, edge_idx)],
                          visited |-> Append(st.visited, edge.j)]
                    ELSE st
         IN  scan_edges(E, C, st2, visited_i, path_to_i, edge_idx + 1)

RECURSIVE find_path_loop(_, _, _)
find_path_loop(E, C, st) ==
    IF st.visited = << >> THEN st.paths
    ELSE LET visited_i == Head(st.visited)
             popped == [st EXCEPT !.visited = Tail(@)]
         IN  find_path_loop(E, C,
                 scan_edges(E, C, popped, visited_i, st.paths[visited_i], 0))

find_path(E, C, path_i, path_j) ==
    find_path_loop(E, C,
        [paths |-> [c \in Cities |-> IF c = path_i THEN << >> ELSE None],
         visited |-> << path_i >>])[path_j]

\* variant: the largest remaining capacity on the path instead of the smallest
RECURSIVE min_remaining_max(_, _, _)
min_remaining_max(E, path, n) ==
    LET r == plane_cap - np_sum(EdgeAt(E, path[n]).cargo)
    IN  IF n = Len(path) THEN r ELSE Max(r, min_remaining_max(E, path, n + 1))

RECURSIVE min_remaining(_, _, _)
min_remaining(E, path, n) ==
    LET r == plane_cap - np_sum(EdgeAt(E, path[n]).cargo)
    IN  IF n = Len(path) THEN r ELSE Min(r, min_remaining(E, path, n + 1))

\* variant: the load already on the path's edges is ignored
path_cap_empty(E, path) == plane_cap

path_cap(E, path) == min_remaining(E, path, 1)

occurrences(path, idx) == Cardinality({n \in 1 .. Len(path) : path[n] = idx})

\* variant: only the first edge of the path is incremented
increment_path_first(E, path, j, amt) ==
    [n \in 1 .. Len(E) |->
        IF n - 1 = path[1] THEN [E[n] EXCEPT !.cargo[j] = @ + amt] ELSE E[n]]

\* variant: only the last edge of the path is incremented
increment_path_last(E, path, j, amt) ==
    [n \in 1 .. Len(E) |->
        IF n - 1 = path[Len(path)] THEN [E[n] EXCEPT !.cargo[j] = @ + amt] ELSE E[n]]

\* for edge_idx in ij_path: edges[edge_idx].cargo[j] += amount
increment_path(E, path, j, amt) ==
    [n \in 1 .. Len(E) |->
        [E[n] EXCEPT !.cargo[j] = @ + amt * occurrences(path, n - 1)]]

----------------------------------------------------------------------------
(* gen_crates_planes and the top level before plan_edges *)

Init ==
    /\ pc = "gen"
    /\ gen_n = 0
    /\ crates = [c \in Cells |-> 0]
    /\ planes = << >>
    /\ demand = [c \in Cells |-> 0]
    /\ min_edges = 0
    /\ ij_order = << >>
    /\ ij_k = 0
    /\ edges = << >>
    /\ constraints = {}
    /\ ij_path = << >>
    /\ path_k = 0
    /\ amount = 0
    /\ all_out_edges = [c \in Cities |-> {}]
    /\ all_in_edges = [c \in Cities |-> {}]
    /\ available_out_edges = [c \in Cities |-> {}]
    /\ available_in_edges = [c \in Cities |-> {}]
    /\ visited_edges = {}
    /\ plane_edges = << >>
    /\ flight_idx = << >>
    /\ plane_pos = << >>
    /\ plane_idx = 0
    /\ cur_i = 0
    /\ ext_local = FALSE
    /\ extended = FALSE

\* one iteration of the crate loop
gen_crate ==
    /\ pc = "gen"
    /\ gen_n < crate_count
    /\ \E i \in GenCities, j \in GenCities :
          crates' = IF i # j THEN [crates EXCEPT ![<< i, j >>] = @ + 1] ELSE crates
    /\ gen_n' = gen_n + 1
    /\ UNCHANGED << pc, planes, demand, min_edges, edge_vars, plane_vars >>

\* the crate loop is over; the script computes the lower bound from the fresh
\* matrix and calls plan_edges.  (The draw of the planes, line 20, is taken in
\* plan_planes_begin: nothing reads or writes planes before line 184.)
gen_done ==
    /\ pc = "gen"
    /\ gen_n = crate_count
    /\ min_edges' = compute_min_edges(crates)
    /\ demand' = crates
    /\ pc' = "plan_edges"
    /\ UNCHANGED << gen_n, crates, planes, edge_vars, plane_vars >>

----------------------------------------------------------------------------
(* plan_edges *)

cur_ij == ij_order[ij_k]

plan_edges_begin ==
    /\ pc = "plan_edges"
    /\ ij_order' = sorted_ij_order(crates)
    /\ ij_k' = 1
    /\ edges' = << >>
    /\ constraints' = {}
    /\ pc' = "pair"
    /\ UNCHANGED << gen_n, crates, planes, demand, min_edges, ij_path, path_k, amount,
                    plane_vars >>

\* one iteration of: while crates[i, j] >= plane_cap
bulk_edge ==
    /\ pc = "pair"
    /\ ij_k <= Len(ij_order)
    /\ crates[cur_ij] >= plane_cap
    /\ IF add_edge_ok(plane_cap)
       THEN /\ edges' = add_edge(edges, cur_ij[1], cur_ij[2], plane_cap)
            /\ crates' = [crates EXCEPT ![cur_ij] = @ - plane_cap]
            /\ pc' = "pair"
       ELSE /\ pc' = "assert_failed"
            /\ UNCHANGED << edges, crates >>
    /\ UNCHANGED << gen_n, planes, demand, min_edges, ij_order, ij_k, constraints,
                    ij_path, path_k, amount, plane_vars >>

\* one iteration of: while crates[i, j] > 0, with a path found; the cargo of
\* the path's edges is incremented, the constraints follow one call at a time
path_found ==
    /\ pc = "pair"
    /\ ij_k <= Len(ij_order)
    /\ crates[cur_ij] > 0
    /\ crates[cur_ij] < plane_cap
    /\ find_path(edges, constraints, cur_ij[1], cur_ij[2]) # None
    /\ ij_path' = find_path(edges, constraints, cur_ij[1], cur_ij[2])
    /\ amount' = Min(path_cap(edges, ij_path'), crates[cur_ij])
    /\ edges' = increment_path(edges, ij_path', cur_ij[2], amount')
    /\ path_k' = 1
    /\ pc' = "constrain"
    /\ UNCHANGED << gen_n, crates, planes, demand, min_edges, ij_order, ij_k,
                    constraints, plane_vars >>

\* one call add_constraint(prev_edge_idx, next_edge_idx) of the zip loop
constrain_pair ==
    /\ pc = "constrain"
    /\ path_k < Len(ij_path)
    /\ LET cs == add_constraint([pairs |-> constraints, ok |-> TRUE],
                                ij_path[path_k], ij_path[path_k + 1])
       IN  /\ constraints' = cs.pairs
           /\ pc' = IF cs.ok THEN "constrain" ELSE "assert_failed"
    /\ path_k' = path_k + 1
    /\ UNCHANGED << gen_n, crates, planes, demand, min_edges, ij_order, ij_k, edges,
                    ij_path, amount, plane_vars >>

\* crates[i, j] -= amount, after the last pair of the path
path_committed ==
    /\ pc = "constrain"
    /\ path_k >= Len(ij_path)
    /\ crates' = [crates EXCEPT ![cur_ij] = @ - amount]
    /\ pc' = "pair"
    /\ UNCHANGED << gen_n, planes, demand, min_edges, edge_vars, plane_vars >>

\* variant: the demand of the pair is not cleared
residual_edge_kept ==
    /\ pc = "pair"
    /\ ij_k <= Len(ij_order)
    /\ crates[cur_ij] > 0
    /\ crates[cur_ij] < plane_cap
    /\ find_path(edges, constraints, cur_ij[1], cur_ij[2]) = None
    /\ IF add_edge_ok(crates[cur_ij])
       THEN /\ edges' = add_edge(edges, cur_ij[1], cur_ij[2], crates[cur_ij])
            /\ crates' = crates
            /\ pc' = "pair"
       ELSE /\ pc' = "assert_failed"
            /\ UNCHANGED << edges, crates >>
    /\ UNCHANGED << gen_n, planes, demand, min_edges, ij_order, ij_k, constraints,
                    ij_path, path_k, amount, plane_vars >>

\* find_path returns None: break, then the residual direct edge
residual_edge ==
    /\ pc = "pair"
    /\ ij_k <= Len(ij_order)
    /\ crates[cur_ij] > 0
    /\ crates[cur_ij] < plane_cap
    /\ find_path(edges, constraints, cur_ij[1], cur_ij[2]) = None
    /\ IF add_edge_ok(crates[cur_ij])
       THEN /\ edges' = add_edge(edges, cur_ij[1], cur_ij[2], crates[cur_ij])
            /\ crates' = [crates EXCEPT ![cur_ij] = 0]
            /\ pc' = "pair"
       ELSE /\ pc' = "assert_failed"
            /\ UNCHANGED << edges, crates >>
    /\ UNCHANGED << gen_n, planes, demand, min_edges, ij_order, ij_k, constraints,
                    ij_path, path_k, amount, plane_vars >>

\* nothing is left of the pair: the for loop moves on
next_pair ==
    /\ pc = "pair"
    /\ ij_k <= Len(ij_order)
    /\ crates[cur_ij] = 0
    /\ ij_k' = ij_k + 1
    /\ UNCHANGED << pc, gen_n, crates, planes, demand, min_edges, ij_order, edges,
                    constraints, ij_path, path_k, amount, plane_vars >>

\* return edges, constraints
plan_edges_return ==
    /\ pc = "pair"
    /\ ij_k > Len(ij_order)
    /\ pc' = "plan_planes"
    /\ UNCHANGED << gen_n, crates, planes, demand, min_edges, edge_vars, plane_vars >>

----------------------------------------------------------------------------
(* plan_planes: the helpers *)

EdgeIdx(E) == 0 .. (Len(E) - 1)

\* variant: the successors are tested instead of the predecessors
is_available_succ(C, visited, idx) == \A c \in C : c[1] = idx => c[2] \in visited

is_available(C, visited, idx) == \A c \in C : c[2] = idx => c[1] \in visited

\* variant: the out-edges of the visited edge's source city are re-examined
unlocked_src(E, C, all_out, av_out, visited, idx) ==
    LET i == EdgeAt(E, idx).i
    IN  {u \in all_out[i] : /\ u \notin visited
                            /\ u \notin av_out[i]
                            /\ is_available(C, visited, u)}

\* the edges the loop of visit_edge makes available after idx was visited;
\* av_out is available_out_edges after idx was removed
unlocked(E, C, all_out, av_out, visited, idx) ==
    LET j == EdgeAt(E, idx).j
    IN  {u \in all_out[j] : /\ u \notin visited
                            /\ u \notin av_out[j]
                            /\ is_available(C, visited, u)}

\* variant: idx stays in available_out_edges
visit_edge_kept(E, C, all_out, av_out, av_in, visited, idx) ==
    LET edge == EdgeAt(E, idx)
        in1 == [av_in EXCEPT ![edge.j] = @ \ {idx}]
        vis1 == visited \cup {idx}
        new == unlocked(E, C, all_out, av_out, vis1, idx)
    IN  [out |-> [c \in Cities |-> av_out[c] \cup {u \in new : EdgeAt(E, u).i = c}],
         in |-> [c \in Cities |-> in1[c] \cup {u \in new : EdgeAt(E, u).j = c}],
         visited |-> vis1]

\* visit_edge(idx): the available sets and visited_edges it leaves
visit_edge(E, C, all_out, av_out, av_in, visited, idx) ==
    LET edge == EdgeAt(E, idx)
        out1 == [av_out EXCEPT ![edge.i] = @ \ {idx}]
        in1 == [av_in EXCEPT ![edge.j] = @ \ {idx}]
        vis1 == visited \cup {idx}
        new == unlocked(E, C, all_out, out1, vis1, idx)
    IN  [out |-> [c \in Cities |-> out1[c] \cup {u \in new : EdgeAt(E, u).i = c}],
         in |-> [c \in Cities |-> in1[c] \cup {u \in new : EdgeAt(E, u).j = c}],
         visited |-> vis1]

jump_js(av_out) == {j \in Cities : av_out[j] # {}}

jump_key(av_out, av_in, j) == Cardinality(av_out[j]) - Cardinality(av_in[j])

\* variant: the largest key over all the cities
jump_j_any(av_out, av_in) ==
    CHOOSE j \in Cities :
        \A k \in Cities :
            \/ jump_key(av_out, av_in, k) < jump_key(av_out, av_in, j)
            \/ (jump_key(av_out, av_in, k) = jump_key(av_out, av_in, j) /\ j <= k)

\* max(jump_js, key=...): the first city of the largest key
jump_j(av_out, av_in) ==
    CHOOSE j \in jump_js(av_out) :
        \A k \in jump_js(av_out) :
            \/ jump_key(av_out, av_in, k) < jump_key(av_out, av_in, j)
            \/ (jump_key(av_out, av_in, k) = jump_key(av_out, av_in, j) /\ j <= k)

plane_key(all_out, visited, pos, p) == Cardinality(all_out[pos[p]] \ visited)

\* min(enumerate(plane_pos), key=...): the first plane of the smallest key
jump_plane_idx(all_out, visited, pos) ==
    CHOOSE p \in DOMAIN pos :
        \A q \in DOMAIN pos :
            \/ plane_key(all_out, visited, pos, q) > plane_key(all_out, visited, pos, p)
            \/ (plane_key(all_out, visited, pos, q) = plane_key(all_out, visited, pos, p)
                /\ p <= q)

----------------------------------------------------------------------------
(* plan_planes *)

\* plan_planes(edges, constraints, ps): the set-up and the first call of
\* extend_journey
plan_planes_call(ps) ==
    /\ pc = "plan_planes"
    /\ all_out_edges' = [c \in Cities |-> {idx \in EdgeIdx(edges) : EdgeAt(edges, idx).i = c}]
    /\ all_in_edges' = [c \in Cities |-> {idx \in EdgeIdx(edges) : EdgeAt(edges, idx).j = c}]
    /\ available_out_edges' =
          [c \in Cities |-> {idx \in EdgeIdx(edges) :
              EdgeAt(edges, idx).i = c /\ is_available(constraints, {}, idx)}]
    /\ available_in_edges' =
          [c \in Cities |-> {idx \in EdgeIdx(edges) :
              EdgeAt(edges, idx).j = c /\ is_available(constraints, {}, idx)}]
    /\ visited_edges' = {}
    /\ plane_edges' = << >>
    /\ flight_idx' = << >>
    /\ planes' = ps
    /\ plane_pos' = ps
    /\ cur_i' = ps[0]
    /\ extended' = FALSE
    /\ plane_idx' = 0
    /\ ext_local' = FALSE
    /\ pc' = "extend"
    /\ UNCHANGED << gen_n, crates, demand, min_edges, edge_vars >>

\* the planes drawn by gen_crates_planes (line 20), then the call of line 184
plan_planes_begin == \E ps \in [Planes -> GenCities] : plan_planes_call(ps)

\* one iteration of the loop of extend_journey that finds an out-edge
extend_step ==
    /\ pc = "extend"
    /\ \E idx \in available_out_edges[cur_i] :
          LET v == visit_edge(edges, constraints, all_out_edges, available_out_edges,
                              available_in_edges, visited_edges, idx)
              edge == EdgeAt(edges, idx)
          IN  /\ available_out_edges' = v.out
              /\ available_in_edges' = v.in
              /\ visited_edges' = v.visited
              /\ plane_edges' = Append(plane_edges,
                    PlaneEdge(plane_idx, edge.i, edge.j, edge.cargo))
              /\ flight_idx' = Append(flight_idx, idx)
              /\ cur_i' = edge.j
    /\ ext_local' = TRUE
    /\ UNCHANGED << pc, gen_n, crates, planes, demand, min_edges, edge_vars,
                    all_out_edges, all_in_edges, plane_pos, plane_idx, extended >>

\* extend_journey finds no out-edge and returns.  The for loop calls it for the
\* next plane; after the last plane the pass is over: another pass starts if
\* some plane extended, else the jump phase is entered
extend_return ==
    /\ pc = "extend"
    /\ available_out_edges[cur_i] = {}
    /\ plane_pos' = [plane_pos EXCEPT ![plane_idx] = cur_i]
    /\ ext_local' = FALSE
    /\ IF plane_idx + 1 < len(planes)
       THEN /\ extended' = (extended \/ ext_local)
            /\ plane_idx' = plane_idx + 1
            /\ cur_i' = plane_pos'[plane_idx + 1]
            /\ pc' = "extend"
       ELSE IF extended \/ ext_local
       THEN /\ extended' = FALSE
            /\ plane_idx' = 0
            /\ cur_i' = plane_pos'[0]
            /\ pc' = "extend"
       ELSE /\ pc' = "jump"
            /\ UNCHANGED << extended, plane_idx, cur_i >>
    /\ UNCHANGED << gen_n, crates, planes, demand, min_edges, edge_vars,
                    all_out_edges, all_in_edges, available_out_edges,
                    available_in_edges, visited_edges, plane_edges, flight_idx >>

\* variant: the jumping plane's position is not updated
jump_unmoved ==
    /\ pc = "jump"
    /\ jump_js(available_out_edges) # {}
    /\ LET jj == jump_j(available_out_edges, available_in_edges)
           jp == jump_plane_idx(all_out_edges, visited_edges, plane_pos)
       IN  /\ plane_pos' = plane_pos
           /\ plane_edges' = Append(plane_edges,
                 PlaneEdge(jp, plane_pos[jp], jj, zero_cargo))
           /\ flight_idx' = Append(flight_idx, -1)
           /\ cur_i' = plane_pos[0]
    /\ extended' = FALSE
    /\ plane_idx' = 0
    /\ pc' = "extend"
    /\ UNCHANGED << gen_n, crates, planes, demand, min_edges, edge_vars,
                    all_out_edges, all_in_edges, available_out_edges,
                    available_in_edges, visited_edges, ext_local >>

\* the repositioning flight, then the next round-robin pass
jump ==
    /\ pc = "jump"
    /\ jump_js(available_out_edges) # {}
    /\ LET jj == jump_j(available_out_edges, available_in_edges)
           jp == jump_plane_idx(all_out_edges, visited_edges, plane_pos)
           pos1 == [plane_pos EXCEPT ![jp] = jj]
       IN  /\ plane_pos' = pos1
           /\ plane_edges' = Append(plane_edges,
                 PlaneEdge(jp, plane_pos[jp], jj, zero_cargo))
           /\ flight_idx' = Append(flight_idx, -1)
           /\ cur_i' = pos1[0]
    /\ extended' = FALSE
    /\ plane_idx' = 0
    /\ pc' = "extend"
    /\ UNCHANGED << gen_n, crates, planes, demand, min_edges, edge_vars,
                    all_out_edges, all_in_edges, available_out_edges,
                    available_in_edges, visited_edges, ext_local >>

\* no city has an available out-edge: the final assertion and the return
plan_planes_return ==
    /\ pc = "jump"
    /\ jump_js(available_out_edges) = {}
    /\ pc' = IF visited_edges = EdgeIdx(edges) THEN "done" ELSE "assert_failed"
    /\ UNCHANGED << gen_n, crates, planes, demand, min_edges, edge_vars, plane_vars >>

----------------------------------------------------------------------------

Next ==
    \/ gen_crate
    \/ gen_done
    \/ plan_edges_begin
    \/ bulk_edge
    \/ path_found
    \/ constrain_pair
    \/ path_committed
    \/ residual_edge
    \/ next_pair
    \/ plan_edges_return
    \/ plan_planes_begin
    \/ extend_step
    \/ extend_return
    \/ jump
    \/ plan_planes_return

Spec == Init /\ [][Next]_vars

----------------------------------------------------------------------------
(* plan_edges on instances over all the cities *)

\* one iteration of the crate loop, any pair of cities
gen_crate_wide ==
    /\ pc = "gen"
    /\ gen_n < wide_count
    /\ \E i \in Cities, j \in Cities :
          crates' = IF i # j THEN [crates EXCEPT ![<< i, j >>] = @ + 1] ELSE crates
    /\ gen_n' = gen_n + 1
    /\ UNCHANGED << pc, planes, demand, min_edges, edge_vars, plane_vars >>

gen_done_wide ==
    /\ pc = "gen"
    /\ gen_n = wide_count
    /\ min_edges' = compute_min_edges(crates)
    /\ demand' = crates
    /\ pc' = "plan_edges"
    /\ UNCHANGED << gen_n, crates, planes, edge_vars, plane_vars >>

NextWide ==
    \/ gen_crate_wide
    \/ gen_done_wide
    \/ plan_edges_begin
    \/ bulk_edge
    \/ path_found
    \/ constrain_pair
    \/ path_committed
    \/ residual_edge
    \/ next_pair
    \/ plan_edges_return

SpecWide == Init /\ [][NextWide]_vars

----------------------------------------------------------------------------
(* The planner on a single pair of cities with one plane *)

single_pair(c) == [p \in Cells |-> IF p = << 0, 1 >> THEN c ELSE 0]

\* the script at the call of plan_edges, crates[0, 1] = c being the only demand
InitSingle ==
    /\ pc = "plan_edges"
    /\ gen_n = 0
    /\ \E c \in 1 .. single_max :
          /\ crates = single_pair(c)
          /\ demand = single_pair(c)
          /\ min_edges = compute_min_edges(single_pair(c))
    /\ planes = << >>
    /\ ij_order = << >>
    /\ ij_k = 0
    /\ edges = << >>
    /\ constraints = {}
    /\ ij_path = << >>
    /\ path_k = 0
    /\ amount = 0
    /\ all_out_edges = [c \in Cities |-> {}]
    /\ all_in_edges = [c \in Cities |-> {}]
    /\ available_out_edges = [c \in Cities |-> {}]
    /\ available_in_edges = [c \in Cities |-> {}]
    /\ visited_edges = {}
    /\ plane_edges = << >>
    /\ flight_idx = << >>
    /\ plane_pos = << >>
    /\ plane_idx = 0
    /\ cur_i = 0
    /\ ext_local = FALSE
    /\ extended = FALSE

\* plan_planes called with one plane, at city 0
plan_planes_single == plan_planes_call([p \in {0} |-> 0])

NextSingle ==
    \/ plan_edges_begin
    \/ bulk_edge
    \/ residual_edge
    \/ next_pair
    \/ plan_edges_return
    \/ plan_planes_single
    \/ extend_step
    \/ extend_return
    \/ jump
    \/ plan_planes_return

SpecSingle == InitSingle /\ [][NextSingle]_vars

----------------------------------------------------------------------------
(* add_constraint on every transitively closed, acyclic store *)

closure_idx == 0 .. (closure_edges - 1)
closure_pairs == {p \in closure_idx \X closure_idx : p[1] # p[2]}

closed_acyclic(S) ==
    /\ \A c \in S : << c[2], c[1] >> \notin S
    /\ \A a \in S : \A b \in S : a[2] = b[1] => << a[1], b[2] >> \in S

\* plan_edges about to call add_constraint(a, b), << a, b >> being the path,
\* on a closed acyclic store that does not hold (b, a)
InitClosure ==
    /\ pc = "constrain"
    /\ constraints \in {S \in SUBSET closure_pairs : closed_acyclic(S)}
    /\ \E p \in closure_pairs :
          /\ << p[2], p[1] >> \notin constraints
          /\ ij_path = << p[1], p[2] >>
    /\ path_k = 1
    /\ gen_n = 0
    /\ crates = [c \in Cells |-> 0]
    /\ planes = << >>
    /\ demand = [c \in Cells |-> 0]
    /\ min_edges = 0
    /\ ij_order = << >>
    /\ ij_k = 0
    /\ edges = << >>
    /\ amount = 0
    /\ all_out_edges = [c \in Cities |-> {}]
    /\ all_in_edges = [c \in Cities |-> {}]
    /\ available_out_edges = [c \in Cities |-> {}]
    /\ available_in_edges = [c \in Cities |-> {}]
    /\ visited_edges = {}
    /\ plane_edges = << >>
    /\ flight_idx = << >>
    /\ plane_pos = << >>
    /\ plane_idx = 0
    /\ cur_i = 0
    /\ ext_local = FALSE
    /\ extended = FALSE

NextClosure == constrain_pair

SpecClosure == InitClosure /\ [][NextClosure]_vars

----------------------------------------------------------------------------
(* Vocabulary of the properties *)

\* plan_edges has just returned: edges and constraints are its output
planned == pc = "plan_planes"
flying == pc \in {"extend", "jump", "done"}

\* d-bound cargo leaving city c, arriving at city c, over all edges
cargo_out(E, c, d) ==
    SumTo([n \in 0 .. Len(E) |->
              IF n > 0 /\ E[n].i = c THEN E[n].cargo[d] ELSE 0], Len(E))
cargo_in(E, c, d) ==
    SumTo([n \in 0 .. Len(E) |->
              IF n > 0 /\ E[n].j = c THEN E[n].cargo[d] ELSE 0], Len(E))

is_jump(f) == f.cargo = zero_cargo

\* Replaying flights n, n+1, ... on the crates on the ground: held[c, d] is the
\* number of d-bound crates at city c, delivered[d] the crates that reached d,
\* ok becomes FALSE when a flight takes off with crates its city does not hold.
RECURSIVE replay(_, _, _)
replay(flights, n, st) ==
    IF n > Len(flights) THEN st
    ELSE LET f == flights[n]
             enough == \A d \in Cities : st.held[<< f.i, d >>] >= f.cargo[d]
             held1 == [c \in Cells |->
                         st.held[c]
                         - (IF c[1] = f.i THEN f.cargo[c[2]] ELSE 0)
                         + (IF c[1] = f.j /\ c[2] # f.j THEN f.cargo[c[2]] ELSE 0)]
             deliv1 == [d \in Cities |->
                         st.delivered[d] + (IF d = f.j THEN f.cargo[d] ELSE 0)]
         IN  replay(flights, n + 1,
                    [held |-> held1, delivered |-> deliv1, ok |-> st.ok /\ enough])

replayed == replay(plane_edges, 1, [held |-> demand, delivered |-> zero_cargo, ok |-> TRUE])

\* city of plane p after the first n flights of the plan
RECURSIVE pos_after(_, _)
pos_after(p, n) ==
    IF n = 0 THEN planes[p]
    ELSE IF plane_edges[n].plane_idx = p THEN plane_edges[n].j
    ELSE pos_after(p, n - 1)

triple(r) == << r.i, r.j, r.cargo >>
edge_copies(t) == Cardinality({n \in 1 .. Len(edges) : triple(edges[n]) = t})
flight_copies(t) ==
    Cardinality({n \in 1 .. Len(plane_edges) :
                    ~is_jump(plane_edges[n]) /\ triple(plane_edges[n]) = t})
flown_triples == {triple(plane_edges[n]) : n \in {m \in 1 .. Len(plane_edges) :
                                                    ~is_jump(plane_edges[m])}}
edge_triples == {triple(edges[n]) : n \in 1 .. Len(edges)}

transshipped == \E n \in 1 .. Len(edges) : \E d \in Cities :
                    d # edges[n].j /\ edges[n].cargo[d] > 0

----------------------------------------------------------------------------
(* Properties *)

\* C1: replaying the flights emitted so far from the original demand, every
\* flight finds its cargo at its source city at take-off, and when plan_planes
\* has returned every demanded crate is delivered and no city holds a crate.
C1_ReplayDelivers ==
    flying =>
        LET r == replayed
        IN  /\ r.ok
            /\ pc = "done" =>
                  /\ \A c \in Cells : r.held[c] = 0
                  /\ \A d \in Cities : r.delivered[d] = col_sum(demand, d)

\* a finished plan that carried transshipped crates under a constraint
C1_Witness ==
    /\ pc = "done"
    /\ constraints # {}
    /\ \E n \in 1 .. Len(plane_edges) : \E d \in Cities :
          d # plane_edges[n].j /\ plane_edges[n].cargo[d] > 0

\* C2: every edge of the store carries at most plane_cap crates in every state
\* of plan_edges and afterwards, and so does every flight.
C2_Capacity ==
    /\ \A n \in 1 .. Len(edges) : np_sum(edges[n].cargo) <= plane_cap
    /\ \A n \in 1 .. Len(plane_edges) : np_sum(plane_edges[n].cargo) <= plane_cap

\* a path commit has just filled an edge to the brim
C2_Witness ==
    /\ pc = "constrain"
    /\ \E n \in 1 .. Len(ij_path) :
          np_sum(EdgeAt(edges, ij_path[n]).cargo) = plane_cap

\* C3: in the output of plan_edges the d-bound cargo leaving a city i # d minus
\* the d-bound cargo arriving at i is the original demand crates[i, d].
C3_OriginFlow ==
    planned =>
        \A d \in Cities : \A i \in Cities \ {d} :
            cargo_out(edges, i, d) - cargo_in(edges, i, d) = demand[<< i, d >>]

\* an output in which some city forwards crates that were flown in
C3_Witness ==
    /\ pc = "plan_planes"
    /\ \E d \in Cities : \E i \in Cities \ {d} :
          cargo_in(edges, i, d) > 0 /\ cargo_out(edges, i, d) > demand[<< i, d >>]

\* C4: in the output of plan_edges the d-bound cargo on the edges that arrive
\* at d is the column sum of the original demand, for every destination d.
C4_Conservation ==
    planned =>
        \A d \in Cities :
            cargo_in(edges, d, d) = col_sum(demand, d)

\* an output in which an edge into d delivers crates of two origins
C4_Witness ==
    /\ pc = "plan_planes"
    /\ \E n \in 1 .. Len(edges) :
          LET e == edges[n] IN e.cargo[e.j] > demand[<< e.i, e.j >>] /\ transshipped

\* C5: for every constraint (a, b), a flight executing b is preceded in the
\* plan by a flight executing a.
C5_LinearExtension ==
    flying =>
        \A c \in constraints :
            \A m \in 1 .. Len(flight_idx) :
                flight_idx[m] = c[2] =>
                    \E n \in 1 .. (m - 1) : flight_idx[n] = c[1]

\* a finished plan over a constraint store with a chain a < b < c
C5_Witness ==
    /\ pc = "done"
    /\ \E a \in constraints : \E b \in constraints : a[2] = b[1]

\* C6: each flight departs from the city its plane is at (the plane's initial
\* city before its first flight, the destination of its previous flight
\* later), and outside its own extend_journey plane_pos[p] is that city.
C6_Geography ==
    flying =>
        /\ \A n \in 1 .. Len(plane_edges) :
              plane_edges[n].i = pos_after(plane_edges[n].plane_idx, n - 1)
        /\ \A p \in DOMAIN planes :
              (pc # "extend" \/ plane_idx # p) =>
                  plane_pos[p] = pos_after(p, Len(plane_edges))

\* a finished plan in which a plane flew cargo, jumped and flew cargo again
C6_Witness ==
    /\ pc = "done"
    /\ \E n \in 2 .. (Len(plane_edges) - 1) :
          /\ is_jump(plane_edges[n])
          /\ \E k \in 1 .. (n - 1) :
                plane_edges[k].plane_idx = plane_edges[n].plane_idx
          /\ plane_edges[n + 1].plane_idx = plane_edges[n].plane_idx

\* C7: no edge is flown more often than the store holds it, and in the
\* returned plan the multiset of cargo flights (source, destination, cargo) is
\* the multiset of edges.
C7_EdgeCoverage ==
    flying =>
        /\ \A t \in flown_triples : flight_copies(t) <= edge_copies(t)
        /\ pc = "done" =>
              \A t \in flown_triples \cup edge_triples : flight_copies(t) = edge_copies(t)

\* a returned plan over a store that holds the same edge twice
C7_Witness ==
    /\ pc = "done"
    /\ \E t \in edge_triples : edge_copies(t) >= 2
    /\ \E n \in 1 .. Len(plane_edges) : is_jump(plane_edges[n])

\* C8: the constraint store is irreflexive, never holds a pair and its
\* reverse, and is transitively closed, after every call of add_constraint.
C8_ClosedAcyclic ==
    /\ \A c \in constraints : c[1] # c[2] /\ << c[2], c[1] >> \notin constraints
    /\ \A a \in constraints : \A b \in constraints :
          a[2] = b[1] => << a[1], b[2] >> \in constraints

\* a call of add_constraint has just added a pair that closes a chain
C8_Witness ==
    /\ pc = "constrain"
    /\ path_k > 1
    /\ \E a \in constraints : \E b \in constraints :
          a[2] = b[1] /\ << a[1], b[2] >> \in constraints

\* C9: plan_edges produces at least min_edges edges, min_edges being the
\* bound the script computes from the original demand, and plan_planes
\* returns at least as many flights as there are edges.
C9_LowerBound ==
    /\ planned => min_edges = compute_min_edges(demand) /\ Len(edges) >= min_edges
    /\ pc = "done" => Len(plane_edges) >= Len(edges) /\ Len(edges) >= min_edges

\* a returned plan in which reuse saved edges and the bound is not trivial
C9_Witness ==
    /\ pc = "done"
    /\ transshipped
    /\ min_edges >= 3
    /\ Len(edges) = min_edges

----------------------------------------------------------------------------
(* Termination *)

\* some plane still to be served by the running pass stands at a city with an
\* available out-edge
pending ==
    \E p \in DOMAIN plane_pos :
        /\ p >= plane_idx
        /\ available_out_edges[IF p = plane_idx THEN cur_i ELSE plane_pos[p]] # {}

cur_left == IF ij_k >= 1 /\ ij_k <= Len(ij_order) THEN crates[cur_ij] ELSE 0

\* a lexicographic measure of the work left
Rank ==
    CASE pc = "gen" -> << 6, crate_count - gen_n, 0, 0 >>
      [] pc = "plan_edges" -> << 5, 0, 0, 0 >>
      [] pc = "pair" -> << 4, Len(ij_order) + 1 - ij_k, cur_left, city_count >>
      [] pc = "constrain" ->
            << 4, Len(ij_order) + 1 - ij_k, cur_left, Len(ij_path) - path_k >>
      [] pc = "plan_planes" -> << 3, 0, 0, 0 >>
      [] pc = "extend" ->
            << 2, Len(edges) - Cardinality(visited_edges),
               IF extended \/ ext_local THEN 3 ELSE IF pending THEN 0 ELSE 2,
               len(planes) - plane_idx >>
      [] pc = "jump" -> << 2, Len(edges) - Cardinality(visited_edges), 1, 0 >>
      [] OTHER -> << 0, 0, 0, 0 >>

LexLess(x, y) ==
    \/ x[1] < y[1]
    \/ x[1] = y[1] /\ x[2] < y[2]
    \/ x[1] = y[1] /\ x[2] = y[2] /\ x[3] < y[3]
    \/ x[1] = y[1] /\ x[2] = y[2] /\ x[3] = y[3] /\ x[4] < y[4]

RankOk == \A n \in 1 .. 4 : Rank[n] >= 0

\* C10: the script terminates. No assertion fails, every state but the final
\* one has a step, every step lowers a measure that is bounded below, every
\* committed path moves at least one crate, and when the jump phase finds no
\* available out-edge visited_edges is the full set of edge indices.
C10_Terminates ==
    /\ [](pc # "assert_failed" /\ RankOk /\ (pc = "done" \/ ENABLED Next))
    /\ [][LexLess(Rank', Rank)]_vars
    /\ [](pc = "constrain" => amount >= 1)
    /\ []((pc = "jump" /\ jump_js(available_out_edges) = {}) =>
              visited_edges = EdgeIdx(edges))

\* the script has returned after a path commit and a jump
C10_Witness ==
    /\ pc = "done"
    /\ \E n \in 1 .. Len(flight_idx) : flight_idx[n] = -1
    /\ Cardinality(constraints) >= 3


----------------------------------------------------------------------------
(* The caller's matrix *)

returned_from_plan_edges == pc \in {"plan_planes", "extend", "jump", "done"}

\* C11: once plan_edges has returned, every entry crates[i, j] of the matrix
\* the script passed to it has the value it had at the call.
C11_CallerMatrixKept == returned_from_plan_edges => crates = demand

----------------------------------------------------------------------------
(* The single-pair instance *)

single_c == demand[<< 0, 1 >>]
single_k == ceil_cap(single_c)

\* cargo of the n-th of the single_k edges: plane_cap, the last one the rest
single_cargo(n) ==
    [zero_cargo EXCEPT ![1] = IF n < single_k THEN plane_cap
                               ELSE single_c - (single_k - 1) * plane_cap]

\* C13: on the instance whose only demand is crates[0, 1] = c > 0, with one
\* plane at city 0, plan_edges returns ceil(c / plane_cap) edges 0 -> 1, all
\* full but the last, which carries the rest, and no constraints; the flights
\* are cargo flights 0 -> 1 of plane 0 alternating with repositioning
\* flights 1 -> 0, each edge flown once, ceil(c / plane_cap) - 1 repositioning
\* flights in all; and the run gets there whatever edge is picked.
C13_SinglePair ==
    /\ pc # "assert_failed"
    /\ pc = "done" \/ ENABLED NextSingle
    /\ returned_from_plan_edges =>
          /\ Len(edges) = single_k
          /\ constraints = {}
          /\ \A n \in 1 .. Len(edges) : edges[n] = Edge(0, 1, single_cargo(n))
    /\ \A n \in 1 .. Len(plane_edges) :
          IF n % 2 = 1
          THEN /\ flight_idx[n] \in EdgeIdx(edges)
               /\ plane_edges[n] = PlaneEdge(0, 0, 1, EdgeAt(edges, flight_idx[n]).cargo)
               /\ \A m \in 1 .. (n - 1) : flight_idx[m] # flight_idx[n]
          ELSE /\ flight_idx[n] = -1
               /\ plane_edges[n] = PlaneEdge(0, 1, 0, zero_cargo)
    /\ pc = "done" => Len(plane_edges) = 2 * single_k - 1

\* a returned plan of three cargo flights, the last edge not full
C13_Witness ==
    /\ pc = "done"
    /\ Len(edges) = 3
    /\ np_sum(edges[3].cargo) < plane_cap
    /\ Len(plane_edges) = 5


----------------------------------------------------------------------------
(* The assertions of add_constraint *)

\* find_path is about to skip an edge for its constraints alone
rejecting ==
    /\ pc = "pair"
    /\ ij_k <= Len(ij_order)
    /\ crates[cur_ij] > 0
    /\ crates[cur_ij] < plane_cap
    /\ find_path(edges, constraints, cur_ij[1], cur_ij[2])
          # find_path(edges, {}, cur_ij[1], cur_ij[2])

----------------------------------------------------------------------------
(* add_constraint as a function of the store *)

pred(S, a) == {c[1] : c \in {d \in S : d[2] = a}}
succ(S, b) == {c[2] : c \in {d \in S : d[1] = b}}

closure_with(S, a, b) ==
    S \cup {<< a, b >>} \cup (pred(S, a) \X {b}) \cup ({a} \X succ(S, b))
      \cup (pred(S, a) \X succ(S, b))

\* C15: on a transitively closed acyclic store S that does not hold (b, a),
\* a # b, the call add_constraint(a, b) returns without a failed assertion and
\* leaves exactly S, (a, b), pred(a) x {b}, {a} x succ(b) and
\* pred(a) x succ(b); the store is unchanged when it already held (a, b).
C15_AddConstraint ==
    [][constrain_pair =>
          LET a == ij_path[path_k]
              b == ij_path[path_k + 1]
          IN  /\ pc' = "constrain"
              /\ constraints' = closure_with(constraints, a, b)
              /\ << a, b >> \in constraints => constraints' = constraints]_vars

\* the call has linked a chain p < a to a chain b < s
C15_Witness ==
    /\ pc = "constrain"
    /\ path_k = 2
    /\ Len(ij_path) = 2
    /\ \E p \in closure_idx : \E s \in closure_idx :
          /\ Cardinality({p, s, ij_path[1], ij_path[2]}) = 4
          /\ {<< p, ij_path[1] >>, << ij_path[2], s >>, << p, s >>} \subseteq constraints


----------------------------------------------------------------------------
(* The available sets *)

\* the unvisited edges whose every predecessor is visited
ready == {idx \in EdgeIdx(edges) \ visited_edges :
             is_available(constraints, visited_edges, idx)}

\* C16: after the set-up of plan_planes and after every visit_edge, for every
\* city c, available_out_edges[c] is exactly the set of unvisited edges
\* leaving c whose predecessors are all visited, and available_in_edges[c]
\* the set of such edges arriving at c.
C16_AvailableExact ==
    flying =>
        \A c \in Cities :
            /\ available_out_edges[c] = {idx \in ready : EdgeAt(edges, idx).i = c}
            /\ available_in_edges[c] = {idx \in ready : EdgeAt(edges, idx).j = c}

\* a visit has just made available an edge that has two predecessors
C16_Witness ==
    /\ pc = "extend"
    /\ ext_local
    /\ \E idx \in available_out_edges[cur_i] :
          /\ Cardinality({c \in constraints : c[2] = idx}) >= 2
          /\ << flight_idx[Len(flight_idx)], idx >> \in constraints


----------------------------------------------------------------------------
(* The order of discovery of find_path *)

\* plan_edges is about to call find_path for the pair at hand
searching ==
    /\ pc = "pair"
    /\ ij_k <= Len(ij_order)
    /\ crates[cur_ij] > 0
    /\ crates[cur_ij] < plane_cap

\* paths[c] at the end of that search
rec(c) == find_path(edges, constraints, cur_ij[1], c)

\* the cities a path arrives at, in order
cities_of(q) == [n \in 1 .. Len(q) |-> EdgeAt(edges, q[n]).j]

\* strict lexicographic order of two sequences of numbers of equal length
lex_lt(s, t) ==
    \E n \in 1 .. Len(s) : s[n] < t[n] /\ \A m \in 1 .. (n - 1) : s[m] = t[m]

\* q is a path from i to j the search accepts edge by edge: connected, through
\* distinct cities, every edge with room and passing the constraint test
\* against the edges before it
usable_path(i, j, q) ==
    /\ EdgeAt(edges, q[1]).i = i
    /\ EdgeAt(edges, q[Len(q)]).j = j
    /\ \A n \in 1 .. Len(q) :
          /\ np_sum(EdgeAt(edges, q[n]).cargo) < plane_cap
          /\ n > 1 => EdgeAt(edges, q[n]).i = EdgeAt(edges, q[n - 1]).j
          /\ can_be_used(constraints, q[n], SubSeq(q, 1, n - 1))
          /\ EdgeAt(edges, q[n]).j # i
          /\ \A m \in 1 .. (n - 1) : EdgeAt(edges, q[m]).j # EdgeAt(edges, q[n]).j

\* C17: find_path is a breadth-first search in which the first discovery fixes
\* a city's path, and among the paths of the returned length the one through
\* the lower-indexed cities is returned, whatever the indices of the edges.
C17_CityOrderTies ==
    (searching /\ rec(cur_ij[2]) # None) =>
        LET p == rec(cur_ij[2])
        IN  \A q \in [1 .. Len(p) -> EdgeIdx(edges)] :
                usable_path(cur_ij[1], cur_ij[2], q) =>
                    (cities_of(p) = cities_of(q) \/ lex_lt(cities_of(p), cities_of(q)))

\* edge idx leaves the discovered city c with room and passes the constraint
\* test against the path recorded for c
usable_from(c, idx) ==
    /\ EdgeAt(edges, idx).i = c
    /\ np_sum(EdgeAt(edges, idx).cargo) < plane_cap
    /\ can_be_used(constraints, idx, rec(c))

\* C17, amended: find_path is a breadth-first search in which the first
\* discovery fixes a city's path: the returned path is the path recorded for
\* the city before j, extended by an edge; no discovered city with a shorter
\* recorded path has a usable edge to j; and ties are broken by edge index:
\* among the discovered cities of that depth with a usable edge to j the one
\* whose recorded path comes first in the order of edge indices wins, and of
\* its usable edges to j the one of lowest index.
C17_EdgeOrderTies ==
    (searching /\ rec(cur_ij[2]) # None) =>
        LET j == cur_ij[2]
            p == rec(j)
            k == Len(p)
            last == p[k]
            pre == SubSeq(p, 1, k - 1)
        IN  /\ EdgeAt(edges, last).j = j
            /\ rec(EdgeAt(edges, last).i) = pre
            /\ usable_from(EdgeAt(edges, last).i, last)
            /\ \A c \in Cities : \A idx \in EdgeIdx(edges) :
                  (rec(c) # None /\ usable_from(c, idx) /\ EdgeAt(edges, idx).j = j) =>
                      \/ Len(rec(c)) > k - 1
                      \/ Len(rec(c)) = k - 1 /\ lex_lt(pre, rec(c))
                      \/ rec(c) = pre /\ last <= idx

\* the search returns a two-edge path through a city although a lower-indexed
\* city, discovered by an edge of higher index, has a usable edge to j as well
C17_Witness ==
    /\ searching
    /\ rec(cur_ij[2]) # None
    /\ Len(rec(cur_ij[2])) = 2
    /\ \E c \in Cities : \E idx \in EdgeIdx(edges) :
          /\ c < EdgeAt(edges, rec(cur_ij[2])[1]).j
          /\ rec(c) # None
          /\ Len(rec(c)) = 1
          /\ rec(c)[1] > rec(cur_ij[2])[1]
          /\ usable_from(c, idx)
          /\ EdgeAt(edges, idx).j = cur_ij[2]


----------------------------------------------------------------------------
(* The shape of edges and flights *)

\* C18: in every state, every edge of the store has i # j, carries nothing
\* bound for its own source city and carries at least one crate; hence a
\* flight has a zero cargo vector exactly when it is a repositioning flight.
C18_EdgeShape ==
    /\ \A n \in 1 .. Len(edges) :
          /\ edges[n].i # edges[n].j
          /\ edges[n].cargo[edges[n].i] = 0
          /\ np_sum(edges[n].cargo) >= 1
    /\ \A n \in 1 .. Len(plane_edges) :
          is_jump(plane_edges[n]) <=> flight_idx[n] = -1

\* a path commit has just put crates of another pair on the first edge of a
\* two-edge path, next to the crates the edge was created for
C18_Witness ==
    /\ pc = "constrain"
    /\ Len(ij_path) >= 2
    /\ LET e == EdgeAt(edges, ij_path[1])
       IN  e.cargo[cur_ij[2]] > 0 /\ e.cargo[e.j] > 0 /\ cur_ij[2] # e.j

----------------------------------------------------------------------------
(* Repositioning flights *)

jumps == {n \in 1 .. Len(flight_idx) : flight_idx[n] = -1}

\* C19: when the jump phase is entered no plane stands at a city with an
\* available out-edge, so a repositioning flight has distinct source and
\* destination; the flight appended after it is a cargo flight of the same
\* plane that departs from the destination of the jump (and until it is
\* appended that city keeps an available out-edge); so no two repositioning
\* flights are adjacent and there are at most as many of them as edges.
C19_JumpThenCargo ==
    /\ pc = "jump" =>
          \A p \in DOMAIN plane_pos : available_out_edges[plane_pos[p]] = {}
    /\ \A n \in jumps :
          /\ plane_edges[n].i # plane_edges[n].j
          /\ IF n < Len(plane_edges)
             THEN /\ flight_idx[n + 1] # -1
                  /\ plane_edges[n + 1].plane_idx = plane_edges[n].plane_idx
                  /\ plane_edges[n + 1].i = plane_edges[n].j
             ELSE /\ pc = "extend"
                  /\ available_out_edges[plane_edges[n].j] # {}
    /\ Cardinality(jumps) <= Len(edges)

\* a returned plan in which plane 1 jumped and flew on, plane 0 standing by
C19_Witness ==
    /\ pc = "done"
    /\ \E n \in jumps :
          /\ plane_edges[n].plane_idx = 1
          /\ plane_edges[n + 1].plane_idx = 1
          /\ \E m \in 1 .. (n - 1) : plane_edges[m].plane_idx = 0

----------------------------------------------------------------------------
(* The number of edges *)

pair_edges(c) == {n \in 1 .. Len(edges) : edges[n].i = c[1] /\ edges[n].j = c[2]}

\* the edges of pair c that carry plane_cap crates, all bound for c[2]
full_direct(c) == {n \in pair_edges(c) : edges[n].cargo[c[2]] = plane_cap}

\* C20: while plan_edges runs the store never holds more than
\* ceil(crates[i, j] / plane_cap) edges from i to j, crates being the demand
\* at the call; when it returns, each
\* pair has its floor(crates[i, j] / plane_cap) full direct edges and at most
\* one more edge, that one only if the demand is not a multiple of plane_cap,
\* the total is at most the sum of the ceilings, and the matrix it worked on
\* is all zero.
C20_EdgeCount ==
    /\ pc \in {"pair", "constrain"} =>
          \A c \in Cells : Cardinality(pair_edges(c)) <= ceil_cap(demand[c])
    /\ planned =>
          /\ \A c \in Cells :
                /\ Cardinality(full_direct(c)) >= demand[c] \div plane_cap
                /\ Cardinality(pair_edges(c)) >= demand[c] \div plane_cap
                /\ Cardinality(pair_edges(c)) <= demand[c] \div plane_cap + 1
                /\ Cardinality(pair_edges(c)) > demand[c] \div plane_cap
                      => demand[c] % plane_cap > 0
                /\ crates[c] = 0
          /\ Len(edges) <= SumTo([n \in 0 .. (Cardinality(Cells) - 1) |->
                                   ceil_cap(demand[<< n \div city_count, n % city_count >>])],
                                 Cardinality(Cells) - 1)

\* plan_edges has returned; one pair got a full edge and a residual edge,
\* another pair got no edge of its own
C20_Witness ==
    /\ pc = "plan_planes"
    /\ \E c \in Cells : Cardinality(pair_edges(c)) = 2 /\ demand[c] > plane_cap
    /\ \E c \in Cells : demand[c] > 0 /\ pair_edges(c) = {}

====
